---- MODULE Spec2Model ----
(***************************************************************************)
(* The order/ledger core of the loyalty service (package database):       *)
(* AddOrder + getOrderInfo + newWorker + updateOrder on the orders table   *)
(* and the inputCh channel, and AddWithDraw on the users and withdraw      *)
(* tables.  One step per store statement / channel operation, so that the  *)
(* interleavings of concurrent handlers and workers are explored.          *)
(***************************************************************************)
EXTENDS Integers, Sequences, FiniteSets, TLC

VARIABLES
    orders,     \* table orders: number -> row (login, status, accrual) or NoRow
    inputCh,    \* goroutines blocked in `inputCh <- number`: number -> count
    workers,    \* the package variable `workers`
    req,        \* the AddOrder calls (one per request goroutine)
    wk,         \* the worker goroutines started by newWorker
    ops,        \* AddOrder calls started plus accrual queries issued so far
    accepted,   \* history: per number, the logins whose AddOrder returned nil
    users,      \* table users: login -> (current, withdrawn)
    withdraw,   \* table withdraw: orderID -> row (login, sum) or NoRow
    wd,         \* the AddWithDraw calls (one per request goroutine)
    wcalls,     \* AddWithDraw calls started so far
    opening,    \* history: each user's `current` before any withdrawal
    paid        \* history: per login, total of the sums of calls that returned nil

orderVars == <<orders, inputCh, workers, req, wk, ops, accepted>>

ledgerVars == <<users, withdraw, wd, wcalls, opening, paid>>

\* The ledger side without the users table.
withdrawVars == <<withdraw, wd, wcalls, opening, paid>>

vars == <<orders, inputCh, workers, req, wk, ops, accepted,
          users, withdraw, wd, wcalls, opening, paid>>

----------------------------------------------------------------------------
\* Bounds of the model.

\* AddOrder calls plus accrual queries in one behaviour.
MaxOps == 4

\* AddWithDraw calls in one behaviour.
MaxWithdrawals == 2

\* Request goroutines that may run AddOrder concurrently.
Requests == {1, 2}

\* Request goroutines that may run AddWithDraw concurrently.
WdRequests == {1, 2}

\* Order numbers submitted by clients (the handler parses an int).
OrderNumbers == {999, 12345}

\* Accrual amounts the accrual service may report.
Accruals == {0, 500}

\* Withdrawal ids and sums requested by clients, and balances the users
\* table may hold when the service starts.
WithdrawIds == {"w1", "w2"}

Sums == {30, 60, 150}

OpeningBalances == {0, 100}

----------------------------------------------------------------------------
\* Program constants and the errs values.

workersCount == 1

DefaultRetryAfter == 15

NoError == "nil"

Used == "used"

Duplicate == "duplicate"

NoAuthorization == "no authorization"

NoMoney == "no money"

StoreError == "store error"

NoRow == [login |-> "", status |-> "", accrual |-> <<>>, present |-> FALSE]

NoLogin == ""

Logins == {"alice", "bob"}

Cookies == {"cookieA", "cookieB", "cookieX"}

\* SELECT login FROM users WHERE cookie = $1 (NoLogin: sql.ErrNoRows).
dbGetLogin(cookie) ==
    CASE cookie = "cookieA" -> "alice"
      [] cookie = "cookieB" -> "bob"
      [] OTHER -> NoLogin

Digits == <<"0", "1", "2", "3", "4", "5", "6", "7", "8", "9">>

RECURSIVE Itoa(_)
\* strconv.Itoa for n >= 0.
Itoa(n) ==
    IF n < 10 THEN Digits[n + 1]
    ELSE Itoa(n \div 10) \o Digits[(n % 10) + 1]

\* Itoa on the order numbers, evaluated once.
NumberString == [n \in OrderNumbers |-> Itoa(n)]

Numbers == {NumberString[n] : n \in OrderNumbers}

DigitValue(ch) == CHOOSE d \in 0..9 : Digits[d + 1] = ch

IsDigit(ch) == \E d \in 0..9 : Digits[d + 1] = ch

RECURSIVE AtoiDigits(_, _)
AtoiDigits(s, acc) ==
    IF s = <<>> THEN acc
    ELSE AtoiDigits(Tail(s), acc * 10 + DigitValue(Head(s)))

\* strconv.Atoi on a header value given as its characters: the empty string
\* and any non-digit are errors.
Atoi(s) ==
    IF s # <<>> /\ \A i \in 1..Len(s) : IsDigit(s[i])
    THEN [val |-> AtoiDigits(s, 0), err |-> FALSE]
    ELSE [val |-> 0, err |-> TRUE]

----------------------------------------------------------------------------
\* The orders table.

\* The insert without its conflict clause doing nothing: the row is written
\* whether or not the number is stored (ON CONFLICT ... DO UPDATE).
dbAddOrderUpsert(tbl, number, login) ==
    [orders   |-> [tbl EXCEPT ![number] =
                      [login |-> login, status |-> "NEW", accrual |-> <<>>,
                       present |-> TRUE]],
     affected |-> 1]

\* INSERT INTO orders (number, login, uploaded_at) ... ON CONFLICT(number) DO
\* NOTHING; status defaults to NEW and accrual to NULL.
dbAddOrder(tbl, number, login) ==
    IF tbl[number].present
    THEN [orders |-> tbl, affected |-> 0]
    ELSE [orders   |-> [tbl EXCEPT ![number] =
                          [login |-> login, status |-> "NEW", accrual |-> <<>>,
                           present |-> TRUE]],
          affected |-> 1]

\* SELECT login FROM orders WHERE number = $1
dbGetOrderLogin(tbl, number) == tbl[number].login

\* UPDATE orders SET status = $1, accrual = $2 WHERE number = $3
dbUpdateOrder(tbl, status, accrual, number) ==
    IF number \in DOMAIN tbl /\ tbl[number].present
    THEN [tbl EXCEPT ![number].status = status, ![number].accrual = <<accrual>>]
    ELSE tbl

\* The owner comparison with its branches exchanged.
OwnerCheckSwapped(orderLogin, login) ==
    IF orderLogin # login THEN Duplicate ELSE Used

\* AddOrder's choice between Used and Duplicate when nothing was inserted.
OwnerCheck(orderLogin, login) ==
    IF orderLogin # login THEN Used ELSE Duplicate

\* PostOrders: the HTTP status for AddOrder's error.
PostOrdersStatus(err) ==
    CASE err = NoError         -> 202
      [] err = NoAuthorization -> 401
      [] err = Duplicate       -> 200
      [] err = Used            -> 409
      [] OTHER                 -> 500

----------------------------------------------------------------------------
\* AddOrder, one step per store statement.

IdleReq ==
    [pc |-> "idle", cookie |-> "", order |-> 0, login |-> NoLogin, i |-> 0,
     err |-> NoError, preOwner |-> NoLogin, overlapped |-> FALSE]

ReqActive(r) == req[r].pc \notin {"idle", "done"}

\* AddOrder returns err: the goroutine's locals are gone, the handler holds
\* the error.
ReqReturn(r, err) == [IdleReq EXCEPT !.pc = "done", !.err = err]

\* A request goroutine enters AddOrder(cookie, order).  preOwner and
\* overlapped are history: the stored owner of the number at entry, and
\* whether another AddOrder for the same number ran during this one.
AddOrderCall(r, cookie, order) ==
    /\ ~ReqActive(r)
    /\ \A q \in Requests : q < r => req[q].pc # "idle"
    /\ ops < MaxOps
    /\ ops' = ops + 1
    /\ LET others == {q \in Requests \ {r} :
                         ReqActive(q) /\ req[q].order = order}
       IN req' = [q \in Requests |->
                    IF q = r
                    THEN [IdleReq EXCEPT !.pc = "getLogin", !.cookie = cookie,
                                         !.order = order,
                                         !.preOwner = orders[NumberString[order]].login,
                                         !.overlapped = (others # {})]
                    ELSE IF q \in others
                         THEN [req[q] EXCEPT !.overlapped = TRUE]
                         ELSE req[q]]
    /\ UNCHANGED <<orders, inputCh, workers, wk, accepted>>

\* QueryRow(dbGetLogin, cookie).Scan(&login)
AddOrderGetLogin(r, fail) ==
    /\ req[r].pc = "getLogin"
    /\ req' = [req EXCEPT ![r] =
                 IF fail THEN ReqReturn(r, StoreError)
                 ELSE IF dbGetLogin(req[r].cookie) = NoLogin
                      THEN ReqReturn(r, NoAuthorization)
                      ELSE [req[r] EXCEPT !.pc = "insert",
                                          !.login = dbGetLogin(req[r].cookie)]]
    /\ UNCHANGED <<orders, inputCh, workers, wk, ops, accepted>>

\* Exec(dbAddOrder, ...) and RowsAffected.
AddOrderInsert(r, fail) ==
    /\ req[r].pc = "insert"
    /\ LET res == dbAddOrder(orders, NumberString[req[r].order], req[r].login) IN
       IF fail
       THEN /\ req' = [req EXCEPT ![r] = ReqReturn(r, StoreError)]
            /\ UNCHANGED orders
       ELSE /\ orders' = res.orders
            /\ req' = [req EXCEPT ![r].pc =
                         IF res.affected = 0 THEN "getOrderLogin"
                         ELSE "getOrderInfo"]
    /\ UNCHANGED <<inputCh, workers, wk, ops, accepted>>

\* affected == 0: QueryRow(dbGetOrderLogin, order), then Used or Duplicate.
AddOrderGetOrderLogin(r, fail) ==
    /\ req[r].pc = "getOrderLogin"
    /\ req' = [req EXCEPT ![r] =
                 IF fail THEN ReqReturn(r, StoreError)
                 ELSE ReqReturn(r, OwnerCheck(
                          dbGetOrderLogin(orders, NumberString[req[r].order]),
                          req[r].login))]
    /\ UNCHANGED <<orders, inputCh, workers, wk, ops, accepted>>

\* AddOrder returns nil.
ReqAccepted(r) ==
    /\ req' = [req EXCEPT ![r] = ReqReturn(r, NoError)]
    /\ accepted' = [accepted EXCEPT ![NumberString[req[r].order]] =
                       Append(@, req[r].login)]

\* getOrderInfo: start the goroutine that sends the number on inputCh, then
\* read `workers` (unsynchronised) for the start-up check and the loop's i.
getOrderInfo(r) ==
    /\ req[r].pc = "getOrderInfo"
    /\ inputCh' = [inputCh EXCEPT ![NumberString[req[r].order]] = @ + 1]
    /\ IF workers < workersCount
       THEN /\ req' = [req EXCEPT ![r].pc = "startWorkers", ![r].i = workers]
            /\ UNCHANGED accepted
       ELSE ReqAccepted(r)
    /\ UNCHANGED <<orders, workers, wk, ops>>

IdleWorker ==
    [pc |-> "off", number |-> "",
     order |-> [number |-> "", status |-> "", accrual |-> 0], sleep |-> 0]

\* newWorker: a fresh goroutine waiting in `for number := range input`.
newWorker == [IdleWorker EXCEPT !.pc = "recv"]

\* One iteration of `for i := workers; i < workersCount; i++`.
getOrderInfoLoop(r) ==
    /\ req[r].pc = "startWorkers"
    /\ IF req[r].i < workersCount
       THEN /\ workers' = workers + 1
            /\ wk' = [wk EXCEPT ![<<r, req[r].i>>] = newWorker]
            /\ req' = [req EXCEPT ![r].i = @ + 1]
            /\ UNCHANGED accepted
       ELSE /\ ReqAccepted(r)
            /\ UNCHANGED <<workers, wk>>
    /\ UNCHANGED <<orders, inputCh, ops>>

----------------------------------------------------------------------------
\* The accrual service's answers, as the worker sees them.

StatusCodes == {200, 204, 429, 500}

\* http.StatusText
StatusText(code) ==
    CASE code = 200 -> "OK"
      [] code = 204 -> "No Content"
      [] code = 429 -> "Too Many Requests"
      [] code = 500 -> "Internal Server Error"

\* resp.Status is the status line after the protocol version: the code and,
\* when the server sends one, the reason phrase ("200 OK"); a bare "200"
\* only when the server leaves the reason phrase out.
StatusLine(code, reason) ==
    IF reason THEN Itoa(code) \o " " \o StatusText(code) ELSE Itoa(code)

\* resp.Status for every answer of the model, evaluated once.
StatusLines == [code \in StatusCodes, reason \in BOOLEAN |->
                   StatusLine(code, reason)]

RemoteStatuses == {"REGISTERED", "PROCESSING", "INVALID", "PROCESSED"}

\* Retry-After header values, as characters: absent, a number, not a number.
RetryAfterHeaders == {<<>>, <<"2">>, <<"x">>}

MalformedBody == [valid |-> FALSE, number |-> "", status |-> "", accrual |-> 0]

\* json.Unmarshal(b, &order): the body's number, status and accrual.  The
\* service echoes the queried number and reports an accrual with PROCESSED
\* only (the field is omitted, so 0, otherwise).
BodiesFor(number) ==
    {MalformedBody} \cup
    {[valid |-> TRUE, number |-> number, status |-> st, accrual |-> a] :
        st \in RemoteStatuses \ {"PROCESSED"}, a \in {0}} \cup
    {[valid |-> TRUE, number |-> number, status |-> "PROCESSED", accrual |-> a] :
        a \in Accruals}

ResponsesFor(number) ==
    [code : {200}, reason : BOOLEAN, retryAfter : {<<>>},
     body : BodiesFor(number)]
    \cup [code : {429}, reason : BOOLEAN, retryAfter : RetryAfterHeaders,
          body : {MalformedBody}]
    \cup [code : {204, 500}, reason : BOOLEAN, retryAfter : {<<>>},
          body : {MalformedBody}]

WorkerIds == Requests \X (0..(workersCount - 1))

\* The number sent back twice.
RequeueTwice(ch, number) == [ch EXCEPT ![number] = @ + 2]

\* go func(number string) { inputCh <- number }(number)
Requeue(ch, number) == [ch EXCEPT ![number] = @ + 1]

\* The received entry stays waiting on the channel.
RecvKeep(ch, number) == ch

\* number := <-input: one waiting send of number completes.
Recv(ch, number) == [ch EXCEPT ![number] = @ - 1]

\* The 429 branch's sleep, in seconds.
RetryDelay(header) ==
    IF Atoi(header).err THEN DefaultRetryAfter ELSE Atoi(header).val

----------------------------------------------------------------------------
\* newWorker's loop.

\* number := <-input
WorkerRecv(w, number) ==
    /\ wk[w].pc = "recv"
    /\ inputCh[number] > 0
    /\ inputCh' = Recv(inputCh, number)
    /\ wk' = [wk EXCEPT ![w] = [newWorker EXCEPT !.pc = "query",
                                                 !.number = number]]
    /\ UNCHANGED <<orders, workers, req, ops, accepted>>

\* http.NewRequest, client.Do or io.ReadAll fails: the number is sent back
\* on inputCh and the goroutine ends (client.Do's branch by the nil
\* resp.Body.Close() panic, recovered in the deferred function); the deferred
\* function starts the replacement worker.
WorkerQueryFail(w, kind) ==
    /\ wk[w].pc = "query"
    /\ ops < MaxOps
    /\ ops' = ops + 1
    /\ kind \in {"NewRequest", "Do", "ReadAll"}
    /\ inputCh' = Requeue(inputCh, wk[w].number)
    /\ wk' = [wk EXCEPT ![w] = newWorker]
    /\ UNCHANGED <<orders, workers, req, accepted, users>>

NoOrder == [number |-> "", status |-> "", accrual |-> 0]

\* The Order decoded from a 200 body.
BodyOrder(body) ==
    [number |-> body.number, status |-> body.status, accrual |-> body.accrual]

\* The switch with every `inputCh <- number` run by the worker itself instead
\* of a goroutine of its own: the worker waits in the send.
HandleResponseSendInline(number, resp) ==
    LET status == StatusLines[resp.code, resp.reason]
        next == [pc |-> "recv", sleep |-> 0, requeue |-> FALSE,
                 update |-> NoOrder, exits |-> FALSE]
        send == [next EXCEPT !.pc = "send", !.requeue = TRUE]
    IN
    CASE status = "200" ->
           IF ~resp.body.valid THEN send
           ELSE IF resp.body.status \in {"INVALID", "PROCESSED"}
                THEN [next EXCEPT !.update = BodyOrder(resp.body)]
                ELSE send
      [] status = "429" -> send
      [] status = "500" -> send
      [] status = "204" ->
           [next EXCEPT !.update = [number |-> number, status |-> "INVALID",
                                    accrual |-> 0]]
      [] OTHER -> next

\* switch resp.Status, up to the store call or the end of the iteration:
\* where the worker goes next (pc, sleep), whether the number is sent back on
\* inputCh before any store call (requeue), and the Order handed to
\* updateOrder (update, NoOrder when there is no store call).
HandleResponse(number, resp) ==
    LET status == StatusLines[resp.code, resp.reason]
        next == [pc |-> "recv", sleep |-> 0, requeue |-> FALSE,
                 update |-> NoOrder, exits |-> FALSE]
    IN
    CASE status = "200" ->
           IF ~resp.body.valid
           THEN [next EXCEPT !.requeue = TRUE, !.exits = TRUE]
           ELSE CASE resp.body.status = "PROCESSING" ->
                       [next EXCEPT !.pc = "updateProcessing",
                                    !.requeue = TRUE,
                                    !.update = BodyOrder(resp.body)]
                  [] resp.body.status \in {"INVALID", "PROCESSED"} ->
                       [next EXCEPT !.update = BodyOrder(resp.body)]
                  [] OTHER -> [next EXCEPT !.requeue = TRUE]
      [] status = "429" ->
           IF RetryDelay(resp.retryAfter) > 0
           THEN [next EXCEPT !.pc = "sleep", !.requeue = TRUE,
                             !.sleep = RetryDelay(resp.retryAfter)]
           ELSE [next EXCEPT !.requeue = TRUE]
      [] status = "500" -> [next EXCEPT !.requeue = TRUE]
      [] status = "204" ->
           [next EXCEPT !.update = [number |-> number, status |-> "INVALID",
                                    accrual |-> 0]]
      [] OTHER -> next

\* The tables a method of DataBase may write through db.DB.
DB == [orders |-> orders, users |-> users]

\* updateOrder that also adds a PROCESSED order's accrual to its owner's
\* current.
updateOrderCrediting(db, order) ==
    [orders |-> dbUpdateOrder(db.orders, order.status, order.accrual,
                              order.number),
     users  |-> IF /\ order.status = "PROCESSED"
                   /\ order.number \in DOMAIN db.orders
                   /\ db.orders[order.number].present
                THEN [db.users EXCEPT ![db.orders[order.number].login].current =
                         @ + order.accrual]
                ELSE db.users]

\* updateOrder(order): Exec(dbUpdateOrder, order.Status, order.Accrual,
\* order.Number), its only statement.
updateOrder(db, order) ==
    [db EXCEPT !.orders = dbUpdateOrder(db.orders, order.status,
                                        order.accrual, order.number)]

\* client.Do and io.ReadAll succeed with the answer resp, and the worker
\* runs the switch on it.  All of it is local to the goroutine up to its
\* first effect on shared state, which is part of this step: sending the
\* number back (then case "PROCESSING" calls updateOrder in a later step),
\* or the updateOrder call of case "INVALID", "PROCESSED" and of case "204"
\* (fail: Exec returns an error, and the number is sent back instead).
WorkerQuery(w, resp, fail) ==
    /\ wk[w].pc = "query"
    /\ ops < MaxOps
    /\ ops' = ops + 1
    /\ LET h == HandleResponse(wk[w].number, resp)
           stores == h.update # NoOrder /\ h.pc # "updateProcessing"
       IN /\ fail => stores
          /\ wk' = [wk EXCEPT ![w] =
                      [newWorker EXCEPT !.pc = h.pc, !.sleep = h.sleep,
                                        !.number = IF h.pc = "updateProcessing"
                                                   THEN wk[w].number ELSE "",
                                        !.order = IF h.pc = "updateProcessing"
                                                  THEN h.update ELSE NoOrder]]
          /\ inputCh' = IF h.requeue \/ (stores /\ fail)
                        THEN Requeue(inputCh, wk[w].number) ELSE inputCh
          /\ orders' = IF stores /\ ~fail
                       THEN updateOrder(DB, h.update).orders ELSE orders
          /\ users' = IF stores /\ ~fail
                      THEN updateOrder(DB, h.update).users ELSE users
    /\ UNCHANGED <<workers, req, accepted>>

\* case "PROCESSING": the number was already sent back; on an error the
\* goroutine ends and is replaced.
WorkerUpdateProcessing(w, fail) ==
    /\ wk[w].pc = "updateProcessing"
    /\ orders' = IF fail THEN orders
                 ELSE updateOrder(DB, wk[w].order).orders
    /\ users' = IF fail THEN users ELSE updateOrder(DB, wk[w].order).users
    /\ wk' = [wk EXCEPT ![w] = newWorker]
    /\ UNCHANGED <<inputCh, workers, req, ops, accepted>>

Sleeping == {w \in WorkerIds : wk[w].pc = "sleep" /\ wk[w].sleep > 0}

\* Time passes, up to the moment the first time.Sleep ends: d seconds for
\* every sleeping worker.
Tick ==
    /\ Sleeping # {}
    /\ LET d == CHOOSE d \in {wk[w].sleep : w \in Sleeping} :
                    \A w \in Sleeping : wk[w].sleep >= d
       IN wk' = [w \in WorkerIds |->
                   IF w \in Sleeping
                   THEN [wk[w] EXCEPT !.sleep = @ - d]
                   ELSE wk[w]]
    /\ UNCHANGED <<orders, inputCh, workers, req, ops, accepted>>

\* time.Sleep returns.
WorkerWake(w) ==
    /\ wk[w].pc = "sleep"
    /\ wk[w].sleep = 0
    /\ wk' = [wk EXCEPT ![w] = newWorker]
    /\ UNCHANGED <<orders, inputCh, workers, req, ops, accepted, users>>

----------------------------------------------------------------------------
\* The users and withdraw tables.

NoWithdraw == [login |-> "", sum |-> 0, present |-> FALSE]

NoBalance == [login |-> NoLogin, current |-> 0, withdrawn |-> 0]

\* SELECT login, current, withdrawn FROM users WHERE cookie = $1
dbGetBalance(tbl, cookie) ==
    IF dbGetLogin(cookie) = NoLogin THEN NoBalance
    ELSE [login     |-> dbGetLogin(cookie),
          current   |-> tbl[dbGetLogin(cookie)].current,
          withdrawn |-> tbl[dbGetLogin(cookie)].withdrawn]

\* The update writing current only.
dbSetBalanceCurrentOnly(tbl, current, withdrawn, cookie) ==
    IF dbGetLogin(cookie) = NoLogin THEN tbl
    ELSE [tbl EXCEPT ![dbGetLogin(cookie)].current = current]

\* UPDATE users SET current = $1, withdrawn = $2 WHERE cookie = $3
dbSetBalance(tbl, current, withdrawn, cookie) ==
    IF dbGetLogin(cookie) = NoLogin THEN tbl
    ELSE [tbl EXCEPT ![dbGetLogin(cookie)] =
             [current |-> current, withdrawn |-> withdrawn]]

\* The insert replacing the row of an id that is already stored.
dbAddWithDrawOverwrite(tbl, order, login, sum) ==
    [tbl EXCEPT ![order] = [login |-> login, sum |-> sum, present |-> TRUE]]

\* INSERT INTO withdraw VALUES (...) ON CONFLICT(orderID) DO NOTHING
dbAddWithDraw(tbl, order, login, sum) ==
    IF tbl[order].present THEN tbl
    ELSE [tbl EXCEPT ![order] = [login |-> login, sum |-> sum,
                                 present |-> TRUE]]

\* The balance check against zero instead of against sum.
InsufficientFundsVsZero(balance, sum) == balance.current < 0

\* if balance.Current < sum { return NoMoney }
InsufficientFunds(balance, sum) == balance.current < sum

\* The debit without the matching increase of withdrawn.
DebitOnly(balance, sum) == [balance EXCEPT !.current = @ - sum]

\* balance.Current -= sum; balance.WithDraw += sum
Debit(balance, sum) ==
    [balance EXCEPT !.current = @ - sum, !.withdrawn = @ + sum]

----------------------------------------------------------------------------
\* AddWithDraw, one step per store statement.

IdleWd ==
    [pc |-> "idle", cookie |-> "", order |-> "", sum |-> 0,
     balance |-> NoBalance, err |-> NoError,
     preUsers |-> <<>>, preWithdraw |-> <<>>, alone |-> TRUE]

WdActive(g) == wd[g].pc \notin {"idle", "done"}

\* AddWithDraw returns err: the goroutine's locals are gone, the handler
\* holds the error.
WdReturn(g, err) == [IdleWd EXCEPT !.pc = "done", !.err = err]

\* A request goroutine enters AddWithDraw(cookie, order, sum).  preUsers,
\* preWithdraw and alone are history: the two tables at entry, and whether
\* no other AddWithDraw ran during this one.
AddWithDrawCall(g, cookie, order, sum) ==
    /\ ~WdActive(g)
    /\ \A h \in WdRequests : h < g => wd[h].pc # "idle"
    /\ wcalls < MaxWithdrawals
    /\ wcalls' = wcalls + 1
    /\ LET others == {h \in WdRequests \ {g} : WdActive(h)}
       IN wd' = [h \in WdRequests |->
                   IF h = g
                   THEN [IdleWd EXCEPT !.pc = "getBalance", !.cookie = cookie,
                                       !.order = order, !.sum = sum,
                                       !.preUsers = users,
                                       !.preWithdraw = withdraw,
                                       !.alone = (others = {})]
                   ELSE IF h \in others
                        THEN [wd[h] EXCEPT !.alone = FALSE]
                        ELSE wd[h]]
    /\ UNCHANGED <<users, withdraw, opening, paid>>

\* QueryRow(dbGetBalance, cookie).Scan(...), the NoMoney check and the two
\* assignments to balance.
AddWithDrawGetBalance(g, fail) ==
    /\ wd[g].pc = "getBalance"
    /\ LET balance == dbGetBalance(users, wd[g].cookie) IN
       wd' = [wd EXCEPT ![g] =
                IF fail THEN WdReturn(g, StoreError)
                ELSE IF balance.login = NoLogin
                     THEN WdReturn(g, NoAuthorization)
                     ELSE IF InsufficientFunds(balance, wd[g].sum)
                          THEN WdReturn(g, NoMoney)
                          ELSE [wd[g] EXCEPT !.pc = "addWithDraw",
                                             !.balance = Debit(balance, wd[g].sum)]]
    /\ UNCHANGED <<users, withdraw, wcalls, opening, paid>>

\* Exec(dbAddWithDraw, order, balance.Login, sum, now)
AddWithDrawInsert(g, fail) ==
    /\ wd[g].pc = "addWithDraw"
    /\ IF fail
       THEN /\ wd' = [wd EXCEPT ![g] = WdReturn(g, StoreError)]
            /\ UNCHANGED withdraw
       ELSE /\ withdraw' = dbAddWithDraw(withdraw, wd[g].order,
                                         wd[g].balance.login, wd[g].sum)
            /\ wd' = [wd EXCEPT ![g].pc = "setBalance"]
    /\ UNCHANGED <<users, wcalls, opening, paid>>

\* Exec(dbSetBalance, balance.Current, balance.WithDraw, cookie); return nil
AddWithDrawSetBalance(g, fail) ==
    /\ wd[g].pc = "setBalance"
    /\ IF fail
       THEN /\ wd' = [wd EXCEPT ![g] = WdReturn(g, StoreError)]
            /\ UNCHANGED <<users, paid>>
       ELSE /\ users' = dbSetBalance(users, wd[g].balance.current,
                                     wd[g].balance.withdrawn, wd[g].cookie)
            /\ wd' = [wd EXCEPT ![g] = WdReturn(g, NoError)]
            /\ paid' = [paid EXCEPT ![wd[g].balance.login] = @ + wd[g].sum]
    /\ UNCHANGED <<withdraw, wcalls, opening>>

----------------------------------------------------------------------------
\* Specifications.

InitOrders ==
    /\ orders = [n \in Numbers |-> NoRow]
    /\ inputCh = [n \in Numbers |-> 0]
    /\ workers = 0
    /\ req = [r \in Requests |-> IdleReq]
    /\ wk = [w \in WorkerIds |-> IdleWorker]
    /\ ops = 0
    /\ accepted = [n \in Numbers |-> <<>>]

InitLedger ==
    /\ opening \in [Logins -> OpeningBalances]
    /\ users = [u \in Logins |-> [current |-> opening[u], withdrawn |-> 0]]
    /\ withdraw = [o \in WithdrawIds |-> NoWithdraw]
    /\ wd = [g \in WdRequests |-> IdleWd]
    /\ wcalls = 0
    /\ paid = [u \in Logins |-> 0]

Init == InitOrders /\ InitLedger

NextOrders ==
    \/ \E r \in Requests, c \in Cookies, o \in OrderNumbers :
          AddOrderCall(r, c, o) /\ UNCHANGED ledgerVars
    \/ \E r \in Requests, fail \in BOOLEAN :
          AddOrderGetLogin(r, fail) /\ UNCHANGED ledgerVars
    \/ \E r \in Requests, fail \in BOOLEAN :
          AddOrderInsert(r, fail) /\ UNCHANGED ledgerVars
    \/ \E r \in Requests, fail \in BOOLEAN :
          AddOrderGetOrderLogin(r, fail) /\ UNCHANGED ledgerVars
    \/ \E r \in Requests : getOrderInfo(r) /\ UNCHANGED ledgerVars
    \/ \E r \in Requests : getOrderInfoLoop(r) /\ UNCHANGED ledgerVars
    \/ \E w \in WorkerIds, n \in Numbers :
          WorkerRecv(w, n) /\ UNCHANGED ledgerVars
    \/ \E w \in WorkerIds, kind \in {"NewRequest", "Do", "ReadAll"} :
          WorkerQueryFail(w, kind) /\ UNCHANGED withdrawVars
    \/ \E w \in WorkerIds, fail \in BOOLEAN :
          \E resp \in ResponsesFor(wk[w].number) :
             WorkerQuery(w, resp, fail) /\ UNCHANGED withdrawVars
    \/ \E w \in WorkerIds, fail \in BOOLEAN :
          WorkerUpdateProcessing(w, fail) /\ UNCHANGED withdrawVars
    \/ Tick /\ UNCHANGED ledgerVars
    \/ \E w \in WorkerIds : WorkerWake(w) /\ UNCHANGED withdrawVars

NextLedger ==
    \/ \E g \in WdRequests, c \in Cookies, o \in WithdrawIds, s \in Sums :
          AddWithDrawCall(g, c, o, s) /\ UNCHANGED orderVars
    \/ \E g \in WdRequests, fail \in BOOLEAN :
          AddWithDrawGetBalance(g, fail) /\ UNCHANGED orderVars
    \/ \E g \in WdRequests, fail \in BOOLEAN :
          AddWithDrawInsert(g, fail) /\ UNCHANGED orderVars
    \/ \E g \in WdRequests, fail \in BOOLEAN :
          AddWithDrawSetBalance(g, fail) /\ UNCHANGED orderVars

Next == NextOrders \/ NextLedger

\* The whole program.
Spec == Init /\ [][Next]_vars

\* The order side alone: submissions, the queue and the workers.
InitOrdersOnly == Init /\ (\A u \in Logins : opening[u] = 0)

SpecOrders == InitOrdersOnly /\ [][NextOrders]_vars

\* The ledger side alone: withdrawals.
SpecLedger == Init /\ [][NextLedger]_vars

\* One step of worker w after its receive: the query and what follows it.
WorkerStep(w) ==
    \/ \E kind \in {"NewRequest", "Do", "ReadAll"} : WorkerQueryFail(w, kind)
    \/ \E fail \in BOOLEAN :
          \E resp \in ResponsesFor(wk[w].number) : WorkerQuery(w, resp, fail)
    \/ \E fail \in BOOLEAN : WorkerUpdateProcessing(w, fail)
    \/ WorkerWake(w)

\* Scheduling of the worker goroutines: a send waiting on inputCh completes
\* when receivers keep arriving (the channel's queue of waiting senders is
\* first in, first out); a worker that can run does run (the query returns
\* within its timeout, the store call returns); time passes.
Fairness ==
    /\ \A n \in Numbers :
          SF_vars((\E w \in WorkerIds : WorkerRecv(w, n)) /\ UNCHANGED ledgerVars)
    /\ \A w \in WorkerIds : WF_vars(WorkerStep(w) /\ UNCHANGED withdrawVars)
    /\ WF_vars(Tick /\ UNCHANGED ledgerVars)

\* The queue and the workers: submissions by one user whose store calls do
\* not fail, and every answer and failure of the worker's query.
NextQueue ==
    \/ \E r \in Requests, o \in OrderNumbers :
          AddOrderCall(r, "cookieA", o) /\ UNCHANGED ledgerVars
    \/ \E r \in Requests : AddOrderGetLogin(r, FALSE) /\ UNCHANGED ledgerVars
    \/ \E r \in Requests : AddOrderInsert(r, FALSE) /\ UNCHANGED ledgerVars
    \/ \E r \in Requests :
          AddOrderGetOrderLogin(r, FALSE) /\ UNCHANGED ledgerVars
    \/ \E r \in Requests : getOrderInfo(r) /\ UNCHANGED ledgerVars
    \/ \E r \in Requests : getOrderInfoLoop(r) /\ UNCHANGED ledgerVars
    \/ \E w \in WorkerIds, n \in Numbers :
          WorkerRecv(w, n) /\ UNCHANGED ledgerVars
    \/ \E w \in WorkerIds : WorkerStep(w) /\ UNCHANGED withdrawVars
    \/ Tick /\ UNCHANGED ledgerVars

\* The queue and the workers under fair scheduling of the workers.
SpecQueue == InitOrdersOnly /\ [][NextQueue]_vars /\ Fairness

----------------------------------------------------------------------------
\* Order status: NEW -> PROCESSING -> {INVALID | PROCESSED}.

Rank(status) ==
    CASE status = "NEW" -> 0
      [] status = "PROCESSING" -> 1
      [] OTHER -> 2

Forward(from, to) == from = to \/ Rank(to) > Rank(from)

\* C1: the stored status of an order only moves forward along
\* NEW -> PROCESSING -> {INVALID | PROCESSED}: no step takes a stored order
\* back to an earlier status or out of INVALID or PROCESSED.
C1_StatusMonotone ==
    [][\A n \in Numbers :
          orders[n].present =>
             /\ orders'[n].present
             /\ Forward(orders[n].status, orders'[n].status)]_vars

----------------------------------------------------------------------------
\* Withdrawals against the ledger.

RECURSIVE SumOfRows(_, _, _)
\* The total of the sum fields of login's rows among the ids.
SumOfRows(tbl, ids, login) ==
    IF ids = {} THEN 0
    ELSE LET o == CHOOSE x \in ids : TRUE
         IN (IF tbl[o].present /\ tbl[o].login = login THEN tbl[o].sum ELSE 0)
            + SumOfRows(tbl, ids \ {o}, login)

LoggedSum(login) == SumOfRows(withdraw, WithdrawIds, login)

Quiescent == \A g \in WdRequests : ~WdActive(g)

\* C2: `available` never goes negative, and the sums of the AddWithDraw calls
\* of one user that returned nil never total more than the balance that was
\* available before them.
C2_NoOverdraw ==
    \A u \in Logins : users[u].current >= 0 /\ paid[u] <= opening[u]

\* C3: with no AddWithDraw in progress, every user's withdraw rows total
\* exactly what `withdrawn` has grown by and `current` has shrunk by.
C3_LedgerMatchesLog ==
    Quiescent =>
       \A u \in Logins :
          /\ LoggedSum(u) = users[u].withdrawn
          /\ LoggedSum(u) = opening[u] - users[u].current

\* C6: no step lowers a user's `withdrawn`, and `current` and `withdrawn`
\* stay >= 0.
C6_WithdrawnMonotone ==
    [][\A u \in Logins :
          /\ users'[u].withdrawn >= users[u].withdrawn
          /\ users'[u].current >= 0
          /\ users'[u].withdrawn >= 0]_vars

\* C9: an AddWithDraw whose balance read finds current < sum returns NoMoney
\* in that step, and the step leaves the users and withdraw tables as they
\* were.
C9_NoMoneyLeavesLedger ==
    [][\A g \in WdRequests :
          (/\ wd[g].pc = "getBalance"
           /\ wd'[g].pc # "getBalance"
           /\ wd'[g].err # StoreError
           /\ dbGetLogin(wd[g].cookie) # NoLogin
           /\ users[dbGetLogin(wd[g].cookie)].current < wd[g].sum)
          => /\ wd'[g].pc = "done"
             /\ wd'[g].err = NoMoney
             /\ users' = users
             /\ withdraw' = withdraw]_vars

\* A call returned NoMoney for 150 against 100 and nothing was debited or
\* logged.
C9_Witness ==
    /\ \E g \in WdRequests : wd[g].pc = "done" /\ wd[g].err = NoMoney
    /\ wcalls = 1
    /\ \A u \in Logins : opening[u] = 100
    /\ \A u \in Logins : users[u] = [current |-> 100, withdrawn |-> 0]
    /\ \A o \in WithdrawIds : ~withdraw[o].present

\* C10: an AddWithDraw that runs alone, by a bound cookie, with current >= sum
\* and an id not in the withdraw table at entry, and whose store statements
\* do not fail, returns nil and leaves the caller's current lower by sum, the
\* caller's withdrawn higher by sum, and the withdraw table with exactly one
\* more row: (id, caller, sum).
C10_WithdrawalApplies ==
    [][\A g \in WdRequests :
          (/\ WdActive(g)
           /\ wd'[g].pc = "done"
           /\ wd'[g].err # StoreError
           /\ wd[g].alone
           /\ dbGetLogin(wd[g].cookie) # NoLogin
           /\ wd[g].preUsers[dbGetLogin(wd[g].cookie)].current >= wd[g].sum
           /\ ~wd[g].preWithdraw[wd[g].order].present)
          => LET u == dbGetLogin(wd[g].cookie)
                 pre == wd[g].preUsers[u]
             IN /\ wd'[g].err = NoError
                /\ users' = [wd[g].preUsers EXCEPT ![u] =
                               [current   |-> pre.current - wd[g].sum,
                                withdrawn |-> pre.withdrawn + wd[g].sum]]
                /\ withdraw' = [wd[g].preWithdraw EXCEPT ![wd[g].order] =
                                  [login |-> u, sum |-> wd[g].sum,
                                   present |-> TRUE]]]_vars

\* The only call so far returned nil for 60 against 100: {40, 60} and one row.
C10_Witness ==
    /\ wcalls = 1
    /\ \E g \in WdRequests : wd[g].pc = "done" /\ wd[g].err = NoError
    /\ \E u \in Logins :
          /\ opening[u] = 100
          /\ users[u] = [current |-> 40, withdrawn |-> 60]
          /\ Cardinality({o \in WithdrawIds : withdraw[o].present}) = 1
          /\ \E o \in WithdrawIds :
                withdraw[o] = [login |-> u, sum |-> 60, present |-> TRUE]

----------------------------------------------------------------------------
\* Submissions.

\* What AddOrder must return for a call, from the call's cookie and the
\* stored owner of the number when the call entered; "any" where a concurrent
\* call for the same number decides.
ExpectedResult(call) ==
    CASE dbGetLogin(call.cookie) = NoLogin -> NoAuthorization
      [] call.preOwner = dbGetLogin(call.cookie) -> Duplicate
      [] call.preOwner # NoLogin -> Used
      [] ~call.overlapped -> NoError
      [] OTHER -> "any"

ExpectedStatus(err) ==
    CASE err = NoError -> 202
      [] err = Duplicate -> 200
      [] err = Used -> 409
      [] err = NoAuthorization -> 401

\* C4: an AddOrder whose store statements do not fail returns
\* NoAuthorization for an unbound cookie; Duplicate when the number was
\* already stored for the caller; Used when it was stored for another login;
\* nil when it was not stored and no other AddOrder for the number ran
\* meanwhile; and PostOrders answers 401, 200, 409 and 202 for them.
C4_SubmitResults ==
    [][\A r \in Requests :
          (/\ ReqActive(r)
           /\ req'[r].pc = "done"
           /\ req'[r].err # StoreError
           /\ ExpectedResult(req[r]) # "any")
          => /\ req'[r].err = ExpectedResult(req[r])
             /\ PostOrdersStatus(req'[r].err)
                   = ExpectedStatus(ExpectedResult(req[r]))]_vars

\* One number is stored, accepted once, and later submissions of it have
\* returned Duplicate and Used.
C4_Witness ==
    /\ \E n \in Numbers :
          /\ Len(accepted[n]) = 1
          /\ \A m \in Numbers \ {n} : ~orders[m].present
    /\ \E r, q \in Requests :
          /\ req[r].pc = "done" /\ req[r].err = Duplicate
          /\ req[q].pc = "done" /\ req[q].err = Used

\* Every stored number has exactly one accepted caller, the stored owner:
\* one that returned nil, or the inserting call on its way to returning nil.
AcceptedOnce ==
    \A n \in Numbers :
       /\ Len(accepted[n]) <= 1
       /\ Len(accepted[n]) = 1 =>
             orders[n].present /\ orders[n].login = accepted[n][1]
       /\ orders[n].present =>
             \/ Len(accepted[n]) = 1
             \/ \E r \in Requests :
                   /\ req[r].pc \in {"getOrderInfo", "startWorkers"}
                   /\ NumberString[req[r].order] = n
                   /\ req[r].login = orders[n].login

\* C5: whatever the interleaving of AddOrder calls for one number, exactly
\* one of them is accepted, the stored owner is that caller, and the stored
\* owner of a number never changes.
C5_OneOwner ==
    [][/\ AcceptedOnce'
       /\ \A n \in Numbers :
             orders[n].present =>
                orders'[n].present /\ orders'[n].login = orders[n].login]_vars

\* Two calls for one number ran concurrently: the inserting call has not yet
\* returned, and the other has already been refused.
C5_Witness ==
    \E r, q \in Requests :
       /\ req[r].pc = "getOrderInfo"
       /\ req[r].overlapped
       /\ orders[NumberString[req[r].order]].login = req[r].login
       /\ \A m \in Numbers \ {NumberString[req[r].order]} : ~orders[m].present
       /\ req[q].pc = "done"
       /\ req[q].err \in {Used, Duplicate}

----------------------------------------------------------------------------
\* The worker's handling of the accrual service's answers.

\* C7: when the accrual service answers a query for a number with 200 and a
\* body with status INVALID or PROCESSED and accrual a (and the store call
\* does not fail), the worker's step stores that status and accrual for the
\* number and does not send the number back on inputCh.
C7_SettledStored ==
    [][\A w \in WorkerIds :
          \A resp \in ResponsesFor(wk[w].number) :
             (/\ resp.code = 200
              /\ resp.body.valid
              /\ resp.body.status \in {"INVALID", "PROCESSED"}
              /\ WorkerQuery(w, resp, FALSE))
             => /\ orders'[wk[w].number].status = resp.body.status
                /\ orders'[wk[w].number].accrual = <<resp.body.accrual>>
                /\ inputCh' = inputCh]_vars

\* C8: when the accrual service answers a query for a number with 204 (and
\* the store call does not fail), the worker's step stores INVALID for the
\* number and does not send the number back on inputCh.
C8_NoContentInvalid ==
    [][\A w \in WorkerIds :
          \A resp \in ResponsesFor(wk[w].number) :
             (resp.code = 204 /\ WorkerQuery(w, resp, FALSE))
             => /\ orders'[wk[w].number].status = "INVALID"
                /\ inputCh' = inputCh]_vars

----------------------------------------------------------------------------
\* The withdrawal log.

\* C11: when AddWithDraw's insert into the withdraw table runs for an id that
\* is already stored, the statement returns no error (the call goes on to its
\* next statement) and the table is left as it was: one row for the id, with
\* the login and sum of the first insert.
C11_SecondRecordingNoOp ==
    [][\A g \in WdRequests :
          (/\ wd[g].pc = "addWithDraw"
           /\ withdraw[wd[g].order].present
           /\ AddWithDrawInsert(g, FALSE))
          => /\ withdraw' = withdraw
             /\ wd'[g].pc = "setBalance"
             /\ wd'[g].err = NoError]_vars

\* A second call has run its insert for an id stored by a first call with
\* another sum, and the row still holds the first call's sum.
C11_Witness ==
    /\ wcalls = 2
    /\ \E g \in WdRequests :
          /\ wd[g].pc = "setBalance"
          /\ withdraw[wd[g].order].present
          /\ withdraw[wd[g].order].sum # wd[g].sum
          /\ Cardinality({o \in WithdrawIds : withdraw[o].present}) = 1

----------------------------------------------------------------------------
\* Rate limiting.

\* The delay a 429 answer asks for: the Retry-After header's seconds, 15
\* when the header is absent or not a number.
SpecifiedDelay(header) ==
    CASE header = <<"2">> -> 2
      [] OTHER -> 15

\* C12: when the accrual service answers a worker's query with 429 and
\* Retry-After r, the worker's step sends the number back on inputCh and
\* starts a sleep of r seconds (15 when the header is absent or not a
\* number), and a worker whose sleep has time left stays asleep: it issues
\* no query until the time has passed.
C12_RateLimitedSleeps ==
    [][\A w \in WorkerIds :
          /\ \A resp \in ResponsesFor(wk[w].number) :
                (resp.code = 429 /\ WorkerQuery(w, resp, FALSE))
                => /\ inputCh' = Requeue(inputCh, wk[w].number)
                   /\ wk'[w].pc = "sleep"
                   /\ wk'[w].sleep = SpecifiedDelay(resp.retryAfter)
          /\ (wk[w].pc = "sleep" /\ wk[w].sleep > 0)
                => /\ wk'[w].pc = "sleep"
                   /\ wk'[w].sleep <= wk[w].sleep]_vars

----------------------------------------------------------------------------
\* The worker pool.

\* The worker goroutines that are running.
LiveWorkers == {w \in WorkerIds : wk[w].pc # "off"}

\* C13: once getOrderInfo has started the workers (`workers` has reached
\* workersCount), the number of running worker goroutines is workersCount in
\* every state: never fewer after a worker returned or panicked, never more
\* after concurrent AddOrder calls.
C13_PoolSize ==
    workers >= workersCount => Cardinality(LiveWorkers) = workersCount

----------------------------------------------------------------------------
\* Reconciliation entries.

\* A reconciliation entry for number exists: a send of it is waiting on
\* inputCh, or a worker has received it and not yet acted on the answer.
Pending(number) ==
    \/ inputCh[number] > 0
    \/ \E w \in WorkerIds : wk[w].pc = "query" /\ wk[w].number = number

\* C14: in every state, each accepted order whose stored status is NEW or
\* PROCESSING has a pending reconciliation entry.
C14_NonTerminalPending ==
    \A n \in Numbers :
       (Len(accepted[n]) > 0 /\ orders[n].status \in {"NEW", "PROCESSING"})
       => Pending(n)

----------------------------------------------------------------------------
\* The worker's handling of failed and unfinished queries.

\* The answers that count as a transient failure of the accrual service: a
\* 5xx status, or a 200 whose body does not decode.
Unavailable(resp) ==
    resp.code = 500 \/ (resp.code = 200 /\ ~resp.body.valid)

\* C15: when a worker's accrual query fails transiently (the request cannot
\* be built or sent, times out, its body cannot be read or decoded, or the
\* service answers 5xx), the worker's step leaves the orders table as it was
\* and sends the number back on inputCh, also when the goroutine ends on
\* that failure.
C15_TransientRequeued ==
    [][\A w \in WorkerIds :
          /\ \A kind \in {"NewRequest", "Do", "ReadAll"} :
                WorkerQueryFail(w, kind)
                => /\ orders' = orders
                   /\ inputCh' = Requeue(inputCh, wk[w].number)
          /\ \A resp \in ResponsesFor(wk[w].number) :
                (Unavailable(resp) /\ WorkerQuery(w, resp, FALSE))
                => /\ orders' = orders
                   /\ inputCh' = Requeue(inputCh, wk[w].number)]_vars

\* The answers that report an order the accrual service has not settled.
StillProcessing(resp) ==
    /\ resp.code = 200
    /\ resp.body.valid
    /\ resp.body.status \in {"REGISTERED", "PROCESSING"}

\* C16: when the accrual service answers a worker's query for a number with
\* 200 and remote status REGISTERED or PROCESSING, the worker sends the
\* number back on inputCh and goes on to its store call, which (when it does
\* not fail) sets the stored status of that number to PROCESSING.
C16_StillProcessingStored ==
    [][\A w \in WorkerIds :
          /\ \A resp \in ResponsesFor(wk[w].number) :
                (StillProcessing(resp) /\ WorkerQuery(w, resp, FALSE))
                => /\ inputCh' = Requeue(inputCh, wk[w].number)
                   /\ wk'[w].pc = "updateProcessing"
                   /\ wk'[w].order.number = wk[w].number
                   /\ wk'[w].order.status = "PROCESSING"
          /\ WorkerUpdateProcessing(w, FALSE)
                => orders'[wk[w].number].status = "PROCESSING"]_vars

----------------------------------------------------------------------------
\* The queue.

\* Worker w holds number: it has received it and not yet acted on the answer.
Holds(w, number) == wk[w].pc = "query" /\ wk[w].number = number

\* C17: inputCh never drops or duplicates an entry: a waiting send of a
\* number goes away only by one worker's receive of that number, and every
\* receive takes exactly one waiting send; and when workers keep coming back
\* to the receive, a waiting send is eventually received.
C17_QueueDelivers ==
    /\ [][/\ \A n \in Numbers :
               inputCh'[n] < inputCh[n]
               => /\ inputCh'[n] = inputCh[n] - 1
                  /\ Cardinality({w \in WorkerIds :
                          wk[w].pc = "recv" /\ wk'[w].pc = "query"
                          /\ wk'[w].number = n}) = 1
          /\ \A w \in WorkerIds :
               (wk[w].pc = "recv" /\ wk'[w].pc = "query")
               => /\ inputCh[wk'[w].number] > 0
                  /\ inputCh' = [inputCh EXCEPT ![wk'[w].number] = @ - 1]]_vars
    /\ \A n \in Numbers :
          ([]<>(\E w \in WorkerIds : wk[w].pc = "recv"))
          => ((inputCh[n] > 0) ~> (\E w \in WorkerIds : Holds(w, n)))

\* A worker holds a number it received, no send of that number is waiting
\* any more, and the send of the other number is still waiting.
C17_Witness ==
    \E w \in WorkerIds :
       /\ wk[w].pc = "query"
       /\ inputCh[wk[w].number] = 0
       /\ \E n \in Numbers \ {wk[w].number} : inputCh[n] = 1

\* Worker w can go on: it waits in the receive, or one of its steps can be
\* taken (the accrual service answering while the behaviour's budget of
\* queries lasts), or its sleep has time left and time can pass.
CanProceed(w) ==
    \/ wk[w].pc = "recv"
    \/ wk[w].pc = "query" /\ ops >= MaxOps
    \/ ENABLED (WorkerStep(w) /\ UNCHANGED withdrawVars)
    \/ wk[w].pc = "sleep" /\ ENABLED (Tick /\ UNCHANGED ledgerVars)

\* C18: sending a number back on inputCh never blocks a worker: the step
\* that sends it back leaves the worker at its next statement (the store
\* call, the sleep or the receive), no running worker is ever stuck, and
\* while the accrual service answers every worker that received a number
\* eventually returns to the receive (as itself or as its replacement).
C18_RequeueNeverBlocks ==
    /\ [][\A w \in WorkerIds :
             (/\ wk[w].pc = "query"
              /\ wk'[w] # wk[w]
              /\ inputCh'[wk[w].number] = inputCh[wk[w].number] + 1)
             => wk'[w].pc \in {"recv", "updateProcessing", "sleep"}]_vars
    /\ [](\A w \in LiveWorkers : CanProceed(w))
    /\ \A w \in WorkerIds :
          ([](ops < MaxOps))
          => ((wk[w].pc \in {"query", "updateProcessing", "sleep"})
                 ~> (wk[w].pc = "recv"))

\* The only worker has sent a number back while no worker was waiting in
\* the receive, and has gone on to its sleep.
C18_Witness ==
    \E w \in WorkerIds :
       /\ LiveWorkers = {w}
       /\ wk[w].pc = "sleep"
       /\ wk[w].sleep > 0
       /\ \E n \in Numbers : inputCh[n] = 1 /\ Len(accepted[n]) = 1
       /\ \A r \in Requests : ~ReqActive(r)

----------------------------------------------------------------------------
\* The ledger and the workers.

\* C19: no step of a worker and no change of a stored order changes the
\* users table: a PROCESSED order's accrual is not added to the owner's
\* current, and no other status changes current or withdrawn either.
C19_WorkerLeavesLedger ==
    [][(wk' # wk \/ orders' # orders)
       => (users' = users /\ withdraw' = withdraw)]_vars

\* An order is stored as PROCESSED with accrual 500 and its owner's balance
\* is still {0, 0}.
C19_Witness ==
    \E n \in Numbers :
       /\ orders[n].present
       /\ orders[n].status = "PROCESSED"
       /\ orders[n].accrual = <<500>>
       /\ users[orders[n].login] = [current |-> 0, withdrawn |-> 0]

\* C20: for every user, current + withdrawn is the same in every state,
\* whatever the interleaving of AddWithDraw calls.
C20_TotalConstant ==
    \A u \in Logins : users[u].current + users[u].withdrawn = opening[u]

\* Two calls of 60 against 100 interleaved and both returned nil: the second
\* write repeated the first, and the balance is {40, 60}.
C20_Witness ==
    \E u \in Logins :
       /\ opening[u] = 100
       /\ paid[u] = 120
       /\ users[u] = [current |-> 40, withdrawn |-> 60]
       /\ \A g \in WdRequests : wd[g].pc = "done"

----------------------------------------------------------------------------
\* Entries per number.

\* The reconciliation entries for number: the sends of it waiting on
\* inputCh, and the workers that received it and have not yet acted on the
\* answer.
Entries(number) ==
    inputCh[number] + Cardinality({w \in WorkerIds : Holds(w, number)})

\* C21: in every state there is at most one reconciliation entry per
\* number; an AddOrder step sends a number on inputCh only on the way to
\* returning nil (no step that returns Duplicate, Used, NoAuthorization or a
\* store error sends anything); and the step of a worker that sends its
\* number back sends it once and ends the worker's hold of it.
C21_OneEntryPerNumber ==
    /\ [](\A n \in Numbers : Entries(n) <= 1)
    /\ [][/\ \A r \in Requests :
               (req'[r] # req[r] /\ inputCh' # inputCh)
               => /\ req[r].pc = "getOrderInfo"
                  /\ orders[NumberString[req[r].order]].login = req[r].login
                  /\ req'[r].pc = "startWorkers"
                        \/ (req'[r].pc = "done" /\ req'[r].err = NoError)
                  /\ inputCh' = [inputCh EXCEPT
                                    ![NumberString[req[r].order]] = @ + 1]
          /\ \A r \in Requests :
               (req'[r].pc = "done" /\ req[r].pc # "done"
                /\ req'[r].err # NoError)
               => inputCh' = inputCh
          /\ \A w \in WorkerIds :
               (wk'[w] # wk[w] /\ wk[w].pc # "recv")
               => \/ inputCh' = inputCh
                  \/ /\ wk[w].pc = "query"
                     /\ inputCh' = [inputCh EXCEPT ![wk[w].number] = @ + 1]
                     /\ ~Holds(w, wk[w].number)']_vars

\* An accepted number was received, answered PROCESSING and sent back once:
\* its one entry waits on inputCh while the worker is at its store call.
C21_Witness ==
    \E w \in WorkerIds :
       /\ wk[w].pc = "updateProcessing"
       /\ Len(accepted[wk[w].number]) = 1
       /\ inputCh[wk[w].number] = 1
       /\ Entries(wk[w].number) = 1

====
